---- MODULE Spec2Model ----
(***************************************************************************)
(* Nutrition RAG chatbot: the three FastAPI programs of the repository     *)
(*   src/main.py           chat with USDA enrichment          (app "usda") *)
(*   src/backend/main.py   upload + retrieval chat            (app "rag")  *)
(*   src/frontend/main.py  plain chat, placeholder upload     (app "basic")*)
(* Strings are sequences of one-character strings, so that split, strip,   *)
(* join, lower, endswith and substring containment are computed.           *)
(***************************************************************************)
EXTENDS Integers, Sequences, FiniteSets, TLC

VARIABLES
    app,            \* which program is running: "usda", "rag" or "basic"
    startup,        \* what happened at import time: [anthropic, pinecone : BOOLEAN]
    claude,         \* module global claude: TRUE = a client object, FALSE = None
    index,          \* module global index (src/backend/main.py)
    USDA_API_KEY,   \* module global USDA_API_KEY: TRUE = a non-empty key
    nreq,           \* number of requests handled so far
    tmp_files,      \* temporary files that exist under /tmp
    req,            \* the last request
    ext,            \* what the external services answered during the last request
    resp,           \* the last response
    llm_calls,      \* claude.messages.create invocations during the last request
    usda_queries,   \* queries sent to the USDA search endpoint during the last request
    upserts,        \* batches passed to index.upsert during the last request
    made_tmp,       \* temporary files created during the last request
    cin,            \* chunking pipeline: the input (text, filename, suffixes)
    cout            \* chunking pipeline: the output (chunks, records)

vars == <<app, startup, claude, index, USDA_API_KEY, nreq, tmp_files, req, ext,
          resp, llm_calls, usda_queries, upserts, made_tmp, cin, cout>>

svc_vars == <<app, startup, claude, index, USDA_API_KEY, nreq, tmp_files, req, ext,
              resp, llm_calls, usda_queries, upserts, made_tmp>>

----------------------------------------------------------------------------
(* Bounds of the model *)

MaxRequests == 2

\* texts of the chunking pipeline: 0..MaxTokens tokens, or up to MaxWindows full
\* windows plus a tail; tokens of 1..MaxWordLen characters
MaxTokens == 18

MaxWindows == 2

MaxWordLen == 5

----------------------------------------------------------------------------
(* Python str operations on sequences of characters *)

Min(a, b) == IF a < b THEN a ELSE b

Whitespace == {" ", "\t", "\n"}

IsSpace(c) == c \in Whitespace

Positions(s) == [i \in 1..Len(s) |-> i]

\* str.split(): the maximal runs of non-whitespace characters, in order
split(s) ==
    LET n == Len(s)
        starts == SelectSeq(Positions(s),
                      LAMBDA i : ~IsSpace(s[i]) /\ (i = 1 \/ IsSpace(s[i - 1])))
        ends == SelectSeq(Positions(s),
                      LAMBDA i : ~IsSpace(s[i]) /\ (i = n \/ IsSpace(s[i + 1])))
    IN  [k \in 1..Len(starts) |-> SubSeq(s, starts[k], ends[k])]

\* str.strip(): drop leading and trailing whitespace
strip(s) ==
    LET keep == SelectSeq(Positions(s), LAMBDA i : ~IsSpace(s[i]))
    IN  IF keep = <<>> THEN <<>> ELSE SubSeq(s, keep[1], keep[Len(keep)])

RECURSIVE JoinRange(_, _, _, _)
JoinRange(sep, ws, lo, hi) ==
    IF lo > hi THEN <<>>
    ELSE IF lo = hi THEN ws[lo]
    ELSE LET mid == (lo + hi) \div 2
         IN  JoinRange(sep, ws, lo, mid) \o sep \o JoinRange(sep, ws, mid + 1, hi)

\* sep.join(ws)
join(sep, ws) == JoinRange(sep, ws, 1, Len(ws))

\* s.endswith(suffix)
endswith(s, suffix) ==
    /\ Len(suffix) <= Len(s)
    /\ SubSeq(s, Len(s) - Len(suffix) + 1, Len(s)) = suffix

\* needle in haystack (substring containment)
contains(haystack, needle) ==
    \E i \in 0..(Len(haystack) - Len(needle)) :
        SubSeq(haystack, i + 1, i + Len(needle)) = needle

Upper == <<"A", "B", "C", "D", "E", "F", "G", "H", "I", "J", "K", "L", "M",
           "N", "O", "P", "Q", "R", "S", "T", "U", "V", "W", "X", "Y", "Z">>

Lower == <<"a", "b", "c", "d", "e", "f", "g", "h", "i", "j", "k", "l", "m",
           "n", "o", "p", "q", "r", "s", "t", "u", "v", "w", "x", "y", "z">>

lower_char(c) ==
    IF \E k \in 1..Len(Upper) : Upper[k] = c
    THEN Lower[CHOOSE k \in 1..Len(Upper) : Upper[k] = c]
    ELSE c

\* s.lower()
lower(s) == [i \in 1..Len(s) |-> lower_char(s[i])]

Digits == <<"0", "1", "2", "3", "4", "5", "6", "7", "8", "9">>

\* str(i) for a non-negative integer (at most three digits are needed here)
RECURSIVE str_int(_)
str_int(i) ==
    IF i < 10 THEN <<Digits[i + 1]>>
    ELSE Append(str_int(i \div 10), Digits[(i % 10) + 1])

----------------------------------------------------------------------------
(* src/backend/main.py: chunk_text *)

chunk_size == 150

min_chunk_len == 50

\* a slice that stops one token early
window_short(words, i) == SubSeq(words, i + 1, Min(i + chunk_size - 1, Len(words)))

\* words[i:i+chunk_size] with Python's 0-based, end-clipped slice
window(words, i) == SubSeq(words, i + 1, Min(i + chunk_size, Len(words)))

\* for i in range(0, len(words), chunk_size): chunks.append(" ".join(...))
RECURSIVE chunk_loop(_, _, _)
chunk_loop(words, i, chunks) ==
    IF i >= Len(words) THEN chunks
    ELSE chunk_loop(words, i + chunk_size,
                    Append(chunks, join(<<" ">>, window(words, i))))

\* the guard with >= for >
keep_chunk_ge(c) == Len(strip(c)) >= min_chunk_len

\* the guard of the final list comprehension: len(c.strip()) > 50
keep_chunk(c) == Len(strip(c)) > min_chunk_len

chunk_text(text) ==
    LET words == split(text)
        chunks == chunk_loop(words, 0, <<>>)
    IN  SelectSeq(chunks, keep_chunk)

----------------------------------------------------------------------------
(* src/backend/main.py: the records upload() builds for index.upsert *)

\* an identifier without the sequence index
record_id_no_index(filename, i, suffix) == filename \o <<"_">> \o suffix

\* f"{file.filename}_{i}_{uuid.uuid4().hex[:8]}"
record_id(filename, i, suffix) ==
    filename \o <<"_">> \o str_int(i) \o <<"_">> \o suffix

\* for i, chunk in enumerate(chunks): upsert_data.append({...});
\* suffixes[k] is the uuid4().hex[:8] drawn for the k-th record
upsert_data(filename, chunks, suffixes) ==
    [k \in 1..Len(chunks) |->
        [id |-> record_id(filename, k - 1, suffixes[k]),
         metadata |-> [text |-> chunks[k], filename |-> filename]]]

\* values of uuid.uuid4().hex[:8]: eight hexadecimal digits
Suffixes ==
    { <<"1", "1", "1", "1", "1", "1", "1", "1">>,
      <<"0", "a", "1", "b", "2", "c", "3", "d">> }

----------------------------------------------------------------------------
(* Input texts: n tokens of w characters each; layout 1 separates them by   *)
(* single spaces, layout 2 by two whitespace characters, with leading and   *)
(* trailing whitespace.                                                     *)

Letters == <<"a", "b", "c">>

Token(k, w) == [i \in 1..w |-> Letters[(k % 3) + 1]]

Gap(k, layout) ==
    IF layout = 1 THEN <<" ">>
    ELSE IF k % 2 = 0 THEN <<"\n", " ">> ELSE <<" ", "\t">>

RECURSIVE TextRange(_, _, _, _)
TextRange(lo, hi, w, layout) ==
    IF lo > hi THEN <<>>
    ELSE IF lo = hi THEN Token(lo, w)
    ELSE LET mid == (lo + hi) \div 2
         IN  TextRange(lo, mid, w, layout) \o Gap(mid, layout)
                 \o TextRange(mid + 1, hi, w, layout)

MkText(p) ==
    IF p.layout = 1 THEN TextRange(1, p.n, p.w, 1)
    ELSE <<" ", "\n">> \o TextRange(1, p.n, p.w, 2) \o <<"\t">>

\* the tokens MkText(p) is made of
TokensOf(p) == [k \in 1..p.n |-> Token(k, p.w)]

TokenCounts ==
    (0..MaxTokens) \cup
    { q * chunk_size + d : q \in 1..MaxWindows, d \in {-1, 0, 1, 10} }

WordLens(n) ==
    IF n = 1 THEN (1..MaxWordLen) \cup {min_chunk_len, min_chunk_len + 1}
    ELSE 1..MaxWordLen

TextParams ==
    { p \in [n : TokenCounts, w : (1..MaxWordLen) \cup {min_chunk_len, min_chunk_len + 1},
             layout : {1, 2}] : p.w \in WordLens(p.n) }

----------------------------------------------------------------------------
(* The chunking pipeline of upload() as a function of the extracted text:   *)
(* chunks = chunk_text(text), then one record per chunk.                    *)

MaxRecords == MaxWindows + 1

PipelineInputs ==
    { [text |-> p, filename |-> <<"a", ".", "t", "x", "t">>, suffixes |-> s] :
        p \in TextParams, s \in [1..MaxRecords -> Suffixes] }

ChunkInit ==
    /\ cin \in PipelineInputs
    /\ cout = [done |-> FALSE, chunks |-> <<>>, records |-> <<>>]

ApplyChunking ==
    /\ ~cout.done
    /\ LET chunks == chunk_text(MkText(cin.text))
       IN  cout' = [done |-> TRUE, chunks |-> chunks,
                    records |-> upsert_data(cin.filename, chunks, cin.suffixes)]
    /\ UNCHANGED <<cin, svc_vars>>

----------------------------------------------------------------------------
(* Python values decoded from JSON, and the operations the handlers apply   *)
(* to them.  A raised exception is the result [exc |-> TRUE].               *)

JNull == [t |-> "null", v |-> <<>>]

JInvalid == [t |-> "invalid", v |-> <<>>]    \* a body on which response.json() raises

JNum(n) == [t |-> "num", v |-> n]

JStr(str) == [t |-> "str", v |-> str]

JList(items) == [t |-> "list", v |-> items]

\* a dict is a sequence of <<key, value>> pairs with distinct keys
JDict(pairs) == [t |-> "dict", v |-> pairs]

Raise == [exc |-> TRUE, val |-> JNull]

Ret(value) == [exc |-> FALSE, val |-> value]

\* bool(x)
truthy(x) ==
    CASE x.t = "null" -> FALSE
      [] x.t = "num" -> x.v # 0
      [] x.t = "str" -> x.v # ""
      [] OTHER -> Len(x.v) > 0

has_key(d, key) == \E i \in 1..Len(d.v) : d.v[i][1] = key

\* x.get(key, default): AttributeError unless x is a dict
py_get(x, key, default) ==
    IF x.t # "dict" THEN Raise
    ELSE IF has_key(x, key)
         THEN Ret(x.v[CHOOSE i \in 1..Len(x.v) : x.v[i][1] = key][2])
         ELSE Ret(default)

\* len(x): TypeError for a number or None
py_len(x) ==
    IF x.t \in {"list", "dict"} THEN Ret(JNum(Len(x.v)))
    ELSE IF x.t = "str" THEN Ret(JNum(IF x.v = "" THEN 0 ELSE 1))
    ELSE Raise

\* x[0]: the first item of a list, the first character of a str (kept whole
\* here: any non-empty str), KeyError on a dict (JSON keys are strings),
\* TypeError on a number or None
py_first(x) ==
    IF x.t = "list" /\ Len(x.v) > 0 THEN Ret(x.v[1])
    ELSE IF x.t = "str" /\ x.v # "" THEN Ret(x)
    ELSE Raise

\* iter(x): the items of a list, the keys of a dict, the characters of a str
\* (kept whole); TypeError on a number or None
py_iter(x) ==
    IF x.t = "list" THEN Ret(x)
    ELSE IF x.t = "dict" THEN Ret(JList([i \in 1..Len(x.v) |-> JStr(x.v[i][1])]))
    ELSE IF x.t = "str" THEN Ret(JList(IF x.v = "" THEN <<>> ELSE <<x>>))
    ELSE Raise

----------------------------------------------------------------------------
(* src/main.py: the USDA functions.  An HTTP exchange is                    *)
(* [result : "exception" | "response", status, body].                       *)

HttpException == [result |-> "exception", status |-> 0, body |-> JNull]

HttpResponse(status, body) == [result |-> "response", status |-> status, body |-> body]

NotCalled == [result |-> "not called", status |-> 0, body |-> JNull]

\* what the try block of search_usda_food returns for one exchange
search_result(http) ==
    IF http.result = "exception" THEN JNull
    ELSE IF http.status = 200
         THEN IF http.body.t = "invalid" THEN JNull
              ELSE LET foods == py_get(http.body, "foods", JList(<<>>))
                   IN  IF foods.exc THEN JNull ELSE foods.val
         ELSE JNull

\* search_usda_food(query, max_results): None without a key, else the try block
search_usda_food(key, http) == IF ~key THEN JNull ELSE search_result(http)

\* get_usda_food_details(fdc_id)
get_usda_food_details(key, http) ==
    IF ~key THEN JNull
    ELSE IF http.result = "exception" THEN JNull
    ELSE IF http.status = 200
         THEN IF http.body.t = "invalid" THEN JNull ELSE http.body
         ELSE JNull

key_nutrients ==
    [Energy |-> "calories", Protein |-> "protein"] @@
    ("Total lipid (fat)" :> "fat") @@
    ("Carbohydrate, by difference" :> "carbs") @@
    ("Fiber, total dietary" :> "fiber") @@
    ("Sugars, total including NLEA" :> "sugar") @@
    ("Sodium, Na" :> "sodium") @@
    ("Calcium, Ca" :> "calcium") @@
    ("Iron, Fe" :> "iron") @@
    ("Vitamin C, total ascorbic acid" :> "vitamin C")

\* str.title() on the labels of key_nutrients
title(label) ==
    CASE label = "calories" -> "Calories"
      [] label = "protein" -> "Protein"
      [] label = "fat" -> "Fat"
      [] label = "carbs" -> "Carbs"
      [] label = "fiber" -> "Fiber"
      [] label = "sugar" -> "Sugar"
      [] label = "sodium" -> "Sodium"
      [] label = "calcium" -> "Calcium"
      [] label = "iron" -> "Iron"
      [] label = "vitamin C" -> "Vitamin C"

\* one pass of the body of "for nutrient in nutrients": the lines it adds
nutrient_line(nutrient) ==
    LET inner == py_get(nutrient, "nutrient", JDict(<<>>))
    IN  IF inner.exc THEN Raise
        ELSE LET name == py_get(inner.val, "name", JStr(""))
             IN  IF name.exc THEN Raise
                 ELSE IF name.val.t \in {"list", "dict"} THEN Raise   \* unhashable
                 ELSE IF name.val.t = "str" /\ name.val.v \in DOMAIN key_nutrients
                 THEN Ret(JList(<<[kind |-> "bullet",
                                   label |-> title(key_nutrients[name.val.v]),
                                   value |-> py_get(nutrient, "amount", JNum(0)).val,
                                   unit |-> py_get(inner.val, "unitName", JStr("")).val]>>))
                 ELSE Ret(JList(<<>>))

RECURSIVE nutrient_lines(_, _, _)
nutrient_lines(items, i, acc) ==
    IF i > Len(items) THEN Ret(JList(acc))
    ELSE LET line == nutrient_line(items[i])
         IN  IF line.exc THEN Raise
             ELSE nutrient_lines(items, i + 1, acc \o line.val.v)

\* format_nutrition_data(food_data): the text as a sequence of lines, "" = <<>>
format_nutrition_data(food_data) ==
    IF ~truthy(food_data) THEN <<>>
    ELSE LET food_name == py_get(food_data, "description", JStr("Unknown food"))
             nutrients == py_get(food_data, "foodNutrients", JList(<<>>))
         IN  IF food_name.exc \/ nutrients.exc THEN <<>>
             ELSE LET items == py_iter(nutrients.val)
                  IN  IF items.exc THEN <<>>
                      ELSE LET lines == nutrient_lines(items.val.v, 1, <<>>)
                           IN  IF lines.exc THEN <<>>
                               ELSE <<[kind |-> "header", name |-> food_name.val]>>
                                        \o lines.val.v

----------------------------------------------------------------------------
(* Requests, responses and the record of one request *)

\* ''
MsgEmpty == <<>>

\* ' \t\n'
MsgBlank == <<" ", "\t", "\n">>

\* 'hello'
MsgHello == <<"h", "e", "l", "l", "o">>

\* 'price of gold'
MsgPriceOfGold ==
    <<"p", "r", "i", "c", "e", " ", "o", "f", " ", "g", "o", "l", "d">>

\* 'Protein price of gold'
MsgProteinPrice ==
    <<"P", "r", "o", "t", "e", "i", "n", " ", "p", "r", "i", "c", "e", " ",
      "o", "f", " ", "g", "o", "l", "d">>

\* 'What are the calories in chicken?'
MsgCaloriesChicken ==
    <<"W", "h", "a", "t", " ", "a", "r", "e", " ", "t", "h", "e", " ",
      "c", "a", "l", "o", "r", "i", "e", "s", " ", "i", "n", " ",
      "c", "h", "i", "c", "k", "e", "n", "?">>

\* 'vitamins in RICE and beef'
MsgRiceBeef ==
    <<"v", "i", "t", "a", "m", "i", "n", "s", " ", "i", "n", " ",
      "R", "I", "C", "E", " ", "a", "n", "d", " ", "b", "e", "e", "f">>

\* 'vitamin D'
MsgVitamin == <<"v", "i", "t", "a", "m", "i", "n", " ", "D">>

Messages ==
    { MsgEmpty, MsgBlank, MsgHello, MsgPriceOfGold, MsgProteinPrice,
      MsgCaloriesChicken, MsgRiceBeef, MsgVitamin }

NoRequest == [endpoint |-> "none"]

ChatRequest(message) == [endpoint |-> "chat", message |-> message]

UploadRequest(file) == [endpoint |-> "upload", file |-> file]

\* raise HTTPException(status, detail)
HTTPException(status, detail) ==
    [status |-> status, raised |-> "HTTPException", body |-> [detail |-> detail]]

\* return {...}
Return(body) == [status |-> 200, raised |-> "none", body |-> body]

\* an exception that leaves the handler: the framework answers 500
Unhandled ==
    [status |-> 500, raised |-> "unhandled", body |-> [detail |-> "Internal Server Error"]]

NoResponse == [status |-> 0, raised |-> "none", body |-> [detail |-> "none"]]

\* what the external services did during one request
ExtNone ==
    [search |-> NotCalled, details |-> NotCalled, llm |-> "not called",
     query |-> "not called", matches |-> <<>>,
     open |-> "not called", parse |-> "not called", upsert |-> "not called",
     remove_try |-> "not called", remove_except |-> "not called"]

\* the effects of one request besides the response
NoEffects ==
    [llm_calls |-> <<>>, usda_queries |-> <<>>, upserts |-> <<>>, made_tmp |-> {}]

Finish(rq, e, r, fx, files) ==
    /\ req' = rq
    /\ ext' = e
    /\ resp' = r
    /\ llm_calls' = fx.llm_calls
    /\ usda_queries' = fx.usda_queries
    /\ upserts' = fx.upserts
    /\ made_tmp' = fx.made_tmp
    /\ tmp_files' = files
    /\ nreq' = nreq + 1
    /\ UNCHANGED <<app, startup, claude, index, USDA_API_KEY, cin, cout>>

----------------------------------------------------------------------------
(* The external LLM *)

LlmOutcomes == {"ok", "error", "empty content"}

\* a client that sends the prompt again after a failure
create_and_read_retry(prompt, outcome) ==
    [calls |-> IF outcome = "ok" THEN <<prompt>> ELSE <<prompt, prompt>>,
     exc |-> outcome # "ok",
     text |-> IF outcome = "ok" THEN "answer" ELSE ""]

\* claude.messages.create(...) followed by response.content[0].text:
\* the prompts sent, and the text read or the exception raised
create_and_read(prompt, outcome) ==
    [calls |-> <<prompt>>,
     exc |-> outcome # "ok",
     text |-> IF outcome = "ok" THEN "answer" ELSE ""]

----------------------------------------------------------------------------
(* src/main.py: chat *)

food_keywords ==
    << <<"c", "a", "l", "o", "r", "i", "e", "s">>,
       <<"p", "r", "o", "t", "e", "i", "n">>,
       <<"n", "u", "t", "r", "i", "t", "i", "o", "n">>,
       <<"n", "u", "t", "r", "i", "e", "n", "t", "s">>,
       <<"v", "i", "t", "a", "m", "i", "n">>,
       <<"m", "i", "n", "e", "r", "a", "l">> >>

food_indicators ==
    << <<"c", "h", "i", "c", "k", "e", "n">>,
       <<"b", "e", "e", "f">>,
       <<"a", "p", "p", "l", "e">>,
       <<"b", "a", "n", "a", "n", "a">>,
       <<"r", "i", "c", "e">>,
       <<"b", "r", "e", "a", "d">>,
       <<"m", "i", "l", "k">>,
       <<"e", "g", "g">>,
       <<"f", "i", "s", "h">>,
       <<"s", "a", "l", "m", "o", "n">>,
       <<"b", "r", "o", "c", "c", "o", "l", "i">>,
       <<"s", "p", "i", "n", "a", "c", "h">>,
       <<"c", "h", "e", "e", "s", "e">>,
       <<"y", "o", "g", "u", "r", "t">>,
       <<"o", "a", "t", "s">>,
       <<"q", "u", "i", "n", "o", "a">>,
       <<"a", "l", "m", "o", "n", "d", "s">>,
       <<"a", "v", "o", "c", "a", "d", "o">> >>

\* not request.message or not request.message.strip()
message_is_empty(message) == message = <<>> \/ strip(message) = <<>>

\* the gate testing the food names instead of the keywords
has_food_keyword_wrong_list(message) ==
    \E k \in 1..Len(food_indicators) : contains(lower(message), food_indicators[k])

\* any(keyword in request.message.lower() for keyword in food_keywords)
has_food_keyword(message) ==
    \E k \in 1..Len(food_keywords) : contains(lower(message), food_keywords[k])

\* for food in food_indicators: if food in request.message.lower(): append
potential_foods(message) ==
    SelectSeq(food_indicators, LAMBDA food : contains(lower(message), food))

\* the food searched for, <<>> when the USDA block is skipped
food_to_search(message) ==
    IF has_food_keyword(message) /\ potential_foods(message) # <<>>
    THEN <<potential_foods(message)[1]>>
    ELSE <<>>

usda_model == "claude-3-5-sonnet-20241022"

usda_sources(usda_context) ==
    IF usda_context # <<>> THEN <<"Claude AI", "USDA FoodData Central">>
    ELSE <<"Claude AI">>

\* lines 221-266: build the prompt, call Claude, shape the response
usda_call_llm(rq, e, usda_context, queries) ==
    \E l \in LlmOutcomes :
        LET prompt == [model |-> usda_model, question |-> rq.message,
                       context |-> usda_context]
            x == create_and_read(prompt, l)
            fx == [NoEffects EXCEPT !.llm_calls = x.calls, !.usda_queries = queries]
        IN  IF x.exc
            THEN Finish(rq, [e EXCEPT !.llm = l],
                        HTTPException(500, "Sorry, I encountered an error"), fx, tmp_files)
            ELSE Finish(rq, [e EXCEPT !.llm = l],
                        Return([response |-> x.text,
                                sources |-> usda_sources(usda_context),
                                usda_data_used |-> usda_context # <<>>,
                                model |-> usda_model]),
                        fx, tmp_files)

\* an exception inside the try block before the Claude call
usda_fail(rq, e, queries) ==
    Finish(rq, e, HTTPException(500, "Sorry, I encountered an error"),
           [NoEffects EXCEPT !.usda_queries = queries], tmp_files)

\* the GET requests sent to the USDA API
SearchQuery(food) == [endpoint |-> "search", arg |-> food]

DetailsQuery(fdc_id) == [endpoint |-> "details", arg |-> fdc_id]

(* What the USDA API can answer *)

FoodHit == JDict(<< <<"fdcId", JNum(169756)>>, <<"description", JStr("Rice, white")>> >>)

FoodNoId == JDict(<< <<"description", JStr("Rice, white")>> >>)

FoodZeroId == JDict(<< <<"fdcId", JNum(0)>> >>)

Foods(value) == JDict(<< <<"foods", value>> >>)

SearchBodies ==
    { JInvalid,                          \* not JSON
      JList(<<>>),                       \* a JSON array instead of an object
      JDict(<<>>),                       \* no "foods" key
      Foods(JNull),
      Foods(JList(<<>>)),                \* empty result list
      Foods(JList(<<FoodHit>>)),
      Foods(JList(<<FoodNoId>>)),        \* result without an identifier
      Foods(JList(<<FoodZeroId>>)),
      Foods(JList(<<JStr("rice")>>)),    \* result that is not an object
      Foods(JStr("error")),
      Foods(JNum(1)),
      Foods(JDict(<< <<"total", JNum(1)>> >>)) }

SearchOutcomes ==
    {HttpException, HttpResponse(500, JNull)} \cup
    { HttpResponse(200, b) : b \in SearchBodies }

Nutrient(name, unit, amount) ==
    JDict(<< <<"nutrient", JDict(<< <<"name", JStr(name)>>, <<"unitName", JStr(unit)>> >>)>>,
             <<"amount", JNum(amount)>> >>)

FoodDetails ==
    JDict(<< <<"description", JStr("Rice, white")>>,
             <<"foodNutrients", JList(<< Nutrient("Energy", "kcal", 130),
                                         Nutrient("Water", "g", 68),
                                         Nutrient("Protein", "g", 2) >>)>> >>)

Nutrients(value) ==
    JDict(<< <<"description", JStr("Rice, white")>>, <<"foodNutrients", value>> >>)

DetailBodies ==
    { JInvalid, JNull, JDict(<<>>), JList(<<>>), JList(<<JNum(1)>>), JStr("not found"),
      FoodDetails,
      JDict(<< <<"message", JStr("not found")>> >>),   \* an object without the fields
      Nutrients(JNull),
      Nutrients(JNum(5)),
      Nutrients(JList(<<JStr("Energy")>>)),
      Nutrients(JList(<< JDict(<< <<"nutrient", JStr("Energy")>> >>) >>)),
      Nutrients(JList(<< JDict(<< <<"nutrient",
                     JDict(<< <<"name", JList(<<JStr("Energy")>>)>> >>)>> >>) >>)) }

DetailOutcomes ==
    {HttpException, HttpResponse(404, JNull)} \cup
    { HttpResponse(200, b) : b \in DetailBodies }

\* lines 212-219: from the search result to usda_context
usda_details(rq, e, usda_foods, queries) ==
    IF ~truthy(usda_foods) THEN usda_call_llm(rq, e, <<>>, queries)
    ELSE IF py_len(usda_foods).exc THEN usda_fail(rq, e, queries)
    ELSE LET first == py_first(usda_foods)
             fdc_id == py_get(first.val, "fdcId", JNull)
         IN  IF first.exc \/ fdc_id.exc THEN usda_fail(rq, e, queries)
             ELSE IF ~truthy(fdc_id.val) THEN usda_call_llm(rq, e, <<>>, queries)
             ELSE \E d \in DetailOutcomes :
                      LET food_details == get_usda_food_details(USDA_API_KEY, d)
                          usda_context == IF truthy(food_details)
                                          THEN format_nutrition_data(food_details)
                                          ELSE <<>>
                      IN  usda_call_llm(rq, [e EXCEPT !.details = d], usda_context,
                                        Append(queries, DetailsQuery(fdc_id.val)))

\* lines 186-219: the USDA block of the try
usda_enrich(rq) ==
    \E foods \in {food_to_search(rq.message)} :
        IF foods = <<>> THEN usda_call_llm(rq, ExtNone, <<>>, <<>>)
        ELSE IF ~USDA_API_KEY
        THEN usda_details(rq, ExtNone, search_usda_food(USDA_API_KEY, NotCalled), <<>>)
        ELSE \E srch \in SearchOutcomes :
                 usda_details(rq, [ExtNone EXCEPT !.search = srch],
                              search_usda_food(USDA_API_KEY, srch),
                              <<SearchQuery(foods[1])>>)

\* POST /api/chat of src/main.py
chat ==
    /\ app = "usda"
    /\ nreq < MaxRequests
    /\ \E message \in Messages :
           LET rq == ChatRequest(message)
           IN  IF ~claude
               THEN Finish(rq, ExtNone,
                           HTTPException(503, "Claude AI service not available"),
                           NoEffects, tmp_files)
               ELSE IF message_is_empty(message)
               THEN Finish(rq, ExtNone, HTTPException(400, "Message cannot be empty"),
                           NoEffects, tmp_files)
               ELSE usda_enrich(rq)

----------------------------------------------------------------------------
(* src/backend/main.py: chat *)

top_k == 3

FileTxt == <<"a", ".", "t", "x", "t">>

FilePdf == <<"b", "_", "1", ".", "p", "d", "f">>

FileDocx == <<"c", ".", "d", "o", "c", "x">>

FileExe == <<"d", ".", "e", "x", "e">>

FileUpperTxt == <<"E", ".", "T", "X", "T">>

\* a match of index.query: its metadata as stored by upload(), or without "text"
Match(filename) ==
    [metadata |-> JDict(<< <<"text", JStr("chunk")>>, <<"filename", JStr(filename)>> >>)]

MatchNoText(filename) == [metadata |-> JDict(<< <<"filename", JStr(filename)>> >>)]

MatchPool == {Match("a.txt"), Match("c.docx"), MatchNoText("a.txt")}

MatchLists == UNION { [1..n -> MatchPool] : n \in 0..top_k }

\* match.metadata[key]: KeyError when the key is missing
has_metadata(match) ==
    has_key(match.metadata, "filename") /\ has_key(match.metadata, "text")

\* the short-circuit taken for a single match too
no_matches_le_one(matches) == Len(matches) <= 1

\* not results.matches
no_matches(matches) == Len(matches) = 0

\* list(set([match.metadata['filename'] for match in results.matches])):
\* a list in no particular order, kept as the set of its elements
rag_sources(matches) ==
    { py_get(matches[i].metadata, "filename", JNull).val.v : i \in 1..Len(matches) }

rag_model == "claude-sonnet-4-20250514"

NoInformation ==
    "I don't have information about that. Please upload nutrition documents first!"

\* lines 126-158: from the query result to the response
rag_answer(rq, e, matches) ==
    IF no_matches(matches)
    THEN Finish(rq, e, Return([response |-> NoInformation, sources |-> {}]),
                NoEffects, tmp_files)
    ELSE IF \E i \in 1..Len(matches) : ~has_metadata(matches[i])
    THEN Finish(rq, e, HTTPException(500, "KeyError"), NoEffects, tmp_files)
    ELSE \E l \in LlmOutcomes :
             LET prompt == [model |-> rag_model, question |-> rq.message,
                            context |-> matches]
                 x == create_and_read(prompt, l)
                 fx == [NoEffects EXCEPT !.llm_calls = x.calls]
             IN  IF x.exc
                 THEN Finish(rq, [e EXCEPT !.llm = l], HTTPException(500, "str(e)"),
                             fx, tmp_files)
                 ELSE Finish(rq, [e EXCEPT !.llm = l],
                             Return([response |-> x.text,
                                     sources |-> rag_sources(matches),
                                     relevant_chunks |-> Len(matches)]),
                             fx, tmp_files)

\* POST /api/chat of src/backend/main.py
backend_chat ==
    /\ app = "rag"
    /\ nreq < MaxRequests
    /\ \E message \in Messages :
           LET rq == ChatRequest(message)
           IN  IF ~(claude /\ index)
               THEN Finish(rq, ExtNone, HTTPException(503, "Services not initialized"),
                           NoEffects, tmp_files)
               ELSE \/ Finish(rq, [ExtNone EXCEPT !.query = "exception"],
                              HTTPException(500, "str(e)"), NoEffects, tmp_files)
                    \/ \E matches \in MatchLists :
                           rag_answer(rq, [ExtNone EXCEPT !.query = "ok",
                                                          !.matches = matches], matches)

----------------------------------------------------------------------------
(* src/backend/main.py: upload *)

\* an uploaded file: its name and its content, as the pages of a PDF, the
\* paragraphs of a DOCX or the single text of a plain file; each part is a
\* text of the family above, kept by its parameters
Part(n, w) == [n |-> n, w |-> w, layout |-> 1]

UploadFiles ==
    { [filename |-> FileExe, content |-> <<Part(10, 5)>>],
      [filename |-> FileUpperTxt, content |-> <<Part(10, 5)>>],
      [filename |-> FileTxt, content |-> <<Part(0, 1)>>],
      [filename |-> FileTxt, content |-> <<Part(10, 4)>>],
      [filename |-> FileTxt, content |-> <<Part(10, 5)>>],
      [filename |-> FileTxt, content |-> <<Part(2 * chunk_size + 10, 1)>>],
      [filename |-> FileTxt, content |-> <<Part(2 * chunk_size + 10, 5)>>],
      [filename |-> FilePdf, content |-> <<Part(chunk_size, 1), Part(chunk_size + 10, 1)>>],
      [filename |-> FileDocx, content |-> <<Part(9, 5), Part(1, min_chunk_len + 1)>>] }

\* file.filename.endswith(('.pdf', '.docx', '.txt'))
supported(filename) ==
    \/ endswith(filename, <<".", "p", "d", "f">>)
    \/ endswith(filename, <<".", "d", "o", "c", "x">>)
    \/ endswith(filename, <<".", "t", "x", "t">>)

\* extract_text(file_path, filename) when the file parses
extract_text(filename, content) ==
    LET parts == [i \in 1..Len(content) |-> MkText(content[i])]
    IN  IF endswith(filename, <<".", "p", "d", "f">>) THEN join(<<>>, parts)
        ELSE IF endswith(filename, <<".", "d", "o", "c", "x">>) THEN join(<<"\n">>, parts)
        ELSE join(<<>>, parts)

\* f"/tmp/{uuid.uuid4()}_{file.filename}": the uuid of the n-th request is n
file_path(n, filename) == <<n, filename>>

\* lines 109-111: os.remove(file_path), then raise HTTPException(500, str(e))
upload_except(rq, e, fx, path) ==
    \E rm \in {"ok", "error"} :
        IF rm = "ok"
        THEN Finish(rq, [e EXCEPT !.remove_except = rm], HTTPException(500, "str(e)"),
                    fx, tmp_files \ {path})
        ELSE Finish(rq, [e EXCEPT !.remove_except = rm], Unhandled,
                    fx, tmp_files \cup {path})

\* lines 85-108: the try block
upload_try(rq, e, fx, path) ==
    \E parse \in {"ok", "error"} :
        IF parse = "error"
        THEN upload_except(rq, [e EXCEPT !.parse = parse], fx, path)
        ELSE \E chunks \in {chunk_text(extract_text(rq.file.filename, rq.file.content))} :
             \E suffixes \in [1..Len(chunks) -> Suffixes] :
             \E data \in {upsert_data(rq.file.filename, chunks, suffixes)} :
             \E ups \in {"ok", "error"} :
                 LET e1 == [e EXCEPT !.parse = parse, !.upsert = ups]
                     fx1 == [fx EXCEPT !.upserts = <<data>>]
                 IN  IF ups = "error" THEN upload_except(rq, e1, fx1, path)
                     ELSE \E rm \in {"ok", "error"} :
                              IF rm = "error"
                              THEN upload_except(rq, [e1 EXCEPT !.remove_try = rm],
                                                 fx1, path)
                              ELSE Finish(rq, [e1 EXCEPT !.remove_try = rm],
                                          Return([filename |-> rq.file.filename,
                                                  chunks_processed |-> Len(chunks),
                                                  status |-> "success"]),
                                          fx1, tmp_files \ {path})

\* POST /api/upload of src/backend/main.py
upload ==
    /\ app = "rag"
    /\ nreq < MaxRequests
    /\ \E file \in UploadFiles :
           LET rq == UploadRequest(file)
               path == file_path(nreq + 1, file.filename)
               made == [NoEffects EXCEPT !.made_tmp = {path}]
           IN  IF ~supported(file.filename)
               THEN Finish(rq, ExtNone,
                           HTTPException(400, "Only PDF, DOCX, TXT files supported"),
                           NoEffects, tmp_files)
               ELSE IF ~(claude /\ index)
               THEN Finish(rq, ExtNone, HTTPException(503, "Services not initialized"),
                           NoEffects, tmp_files)
               ELSE \E wr \in {"ok", "open fails", "write fails"} :
                        LET e == [ExtNone EXCEPT !.open = wr]
                        IN  IF wr = "open fails"
                            THEN Finish(rq, e, Unhandled, NoEffects, tmp_files)
                            ELSE IF wr = "write fails"
                            THEN Finish(rq, e, Unhandled, made, tmp_files \cup {path})
                            ELSE upload_try(rq, e, made, path)

----------------------------------------------------------------------------
(* src/frontend/main.py *)

basic_model == "claude-sonnet-4-20250514"

\* POST /api/chat of src/frontend/main.py
frontend_chat ==
    /\ app = "basic"
    /\ nreq < MaxRequests
    /\ \E message \in Messages :
           LET rq == ChatRequest(message)
           IN  IF ~claude
               THEN Finish(rq, ExtNone, HTTPException(503, "Claude service not initialized"),
                           NoEffects, tmp_files)
               ELSE \E l \in LlmOutcomes :
                        LET prompt == [model |-> basic_model, question |-> message,
                                       context |-> <<>>]
                            x == create_and_read(prompt, l)
                            fx == [NoEffects EXCEPT !.llm_calls = x.calls]
                        IN  IF x.exc
                            THEN Finish(rq, [ExtNone EXCEPT !.llm = l],
                                        HTTPException(500, "Claude API error"), fx, tmp_files)
                            ELSE Finish(rq, [ExtNone EXCEPT !.llm = l],
                                        Return([response |-> x.text,
                                                sources |-> <<"Claude AI Nutrition Knowledge">>,
                                                relevant_chunks |-> 1]),
                                        fx, tmp_files)

\* POST /api/upload of src/frontend/main.py: a placeholder
frontend_upload ==
    /\ app = "basic"
    /\ nreq < MaxRequests
    /\ \E file \in UploadFiles :
           Finish(UploadRequest(file), ExtNone,
                  Return([message |-> "Upload functionality will be added back",
                          filename |-> file.filename, status |-> "placeholder"]),
                  NoEffects, tmp_files)

----------------------------------------------------------------------------
(* Start-up: the module-level try blocks *)

\* src/main.py lines 35-50
usda_startup(anthropic_ok, key) ==
    [claude |-> anthropic_ok, index |-> FALSE, USDA_API_KEY |-> key]

\* src/backend/main.py lines 26-36: one try around both clients
backend_startup(anthropic_ok, pinecone_ok) ==
    IF anthropic_ok /\ pinecone_ok
    THEN [claude |-> TRUE, index |-> TRUE, USDA_API_KEY |-> FALSE]
    ELSE [claude |-> FALSE, index |-> FALSE, USDA_API_KEY |-> FALSE]

\* src/frontend/main.py lines 25-30
frontend_startup(anthropic_ok) ==
    [claude |-> anthropic_ok, index |-> FALSE, USDA_API_KEY |-> FALSE]

Idle ==
    /\ nreq = 0
    /\ tmp_files = {}
    /\ req = NoRequest
    /\ ext = ExtNone
    /\ resp = NoResponse
    /\ llm_calls = <<>>
    /\ usda_queries = <<>>
    /\ upserts = <<>>
    /\ made_tmp = {}

Started(a, s, g) ==
    /\ app = a
    /\ startup = s
    /\ claude = g.claude
    /\ index = g.index
    /\ USDA_API_KEY = g.USDA_API_KEY

Init ==
    /\ \E a \in BOOLEAN, b \in BOOLEAN :
           \/ Started("usda", [anthropic |-> a, pinecone |-> FALSE, usda_key |-> b],
                      usda_startup(a, b))
           \/ Started("rag", [anthropic |-> a, pinecone |-> b, usda_key |-> FALSE],
                      backend_startup(a, b))
           \/ /\ b
              /\ Started("basic", [anthropic |-> a, pinecone |-> FALSE, usda_key |-> FALSE],
                         frontend_startup(a))
    /\ Idle
    /\ cin = <<>>
    /\ cout = <<>>

Next ==
    \/ chat
    \/ backend_chat
    \/ upload
    \/ frontend_chat
    \/ frontend_upload

Spec == Init /\ [][Next]_vars

----------------------------------------------------------------------------
(* The chunking pipeline on its own: every text of the family *)

PipelineInit ==
    /\ ChunkInit
    /\ Started("rag", [anthropic |-> TRUE, pinecone |-> TRUE, usda_key |-> FALSE],
               backend_startup(TRUE, TRUE))
    /\ Idle

PipelineNext == ApplyChunking

SpecChunk == PipelineInit /\ [][PipelineNext]_vars

----------------------------------------------------------------------------
(* Properties *)

IsChat == req.endpoint = "chat"

IsUpload == req.endpoint = "upload"

\* the zero-match path of the retrieval chat handler was taken
ZeroMatches == ext.query = "ok" /\ ext.matches = <<>>

Rice == <<"r", "i", "c", "e">>

\* C1: for every chat request whose message is empty or only whitespace the
\* handler answers 400 and never calls the LLM, whatever the state of the
\* service clients
C1_EmptyMessageRejected ==
    (IsChat /\ message_is_empty(req.message)) =>
        (resp.status = 400 /\ llm_calls = <<>>)

\* C1, the part the code keeps: in src/main.py an empty or whitespace-only
\* message never reaches the LLM; the answer is 503 without an LLM client and
\* 400 with one
C1_UsdaEmptyMessage ==
    (app = "usda" /\ IsChat /\ message_is_empty(req.message)) =>
        /\ llm_calls = <<>>
        /\ resp.status = (IF claude THEN 400 ELSE 503)

\* C2: in the retrieval chat handler a query with zero matches ends with the
\* canned response, sources = [] and no LLM call; every other successful chat
\* response follows exactly one LLM call
C2_ZeroMatchOnlyBypass ==
    (app = "rag" /\ IsChat) =>
        /\ ZeroMatches =>
               /\ resp = Return([response |-> NoInformation, sources |-> {}])
               /\ llm_calls = <<>>
        /\ (resp.status = 200 /\ ~ZeroMatches) => Len(llm_calls) = 1

C2_Witness ==
    /\ app = "rag" /\ IsChat /\ ZeroMatches
    /\ resp.status = 200 /\ resp.body.sources = {} /\ llm_calls = <<>>

\* C3: every temporary file an upload request creates no longer exists when
\* the request completes, on every path; requests rejected with 400 or 503
\* create none
C3_TempFileDeleted ==
    IsUpload =>
        /\ made_tmp \cap tmp_files = {}
        /\ resp.status \in {400, 503} => made_tmp = {}

\* C3, the part the code keeps: a rejected upload creates no temporary file
\* and a successful one leaves none behind
C3_RejectedOrSuccessful ==
    IsUpload =>
        /\ resp.status \in {400, 503} => made_tmp = {}
        /\ resp.status = 200 => made_tmp \cap tmp_files = {}

\* C4: every chunk chunk_text returns has trimmed length greater than 50, and
\* so has the metadata text of every record built for the vector index
C4_ChunksAboveThreshold ==
    cout.done =>
        /\ \A k \in 1..Len(cout.chunks) : Len(strip(cout.chunks[k])) > 50
        /\ \A k \in 1..Len(cout.records) :
               Len(strip(cout.records[k].metadata.text)) > 50

\* a chunk of exactly 51 characters is kept and stored
C4_Witness ==
    /\ cout.done
    /\ Len(cout.chunks) = 1 /\ Len(cout.chunks[1]) = 51
    /\ Len(cout.records) = 1 /\ cout.records[1].metadata.text = cout.chunks[1]

\* the reference chunker of C5 on the tokens of a text
RefWindows(tokens) ==
    LET N == Len(tokens)
        count == (N + 149) \div 150
    IN  [k \in 1..count |-> SubSeq(tokens, 150 * (k - 1) + 1, Min(150 * k, N))]

RefChunks(tokens) ==
    LET joined == [k \in 1..Len(RefWindows(tokens)) |->
                       join(<<" ">>, RefWindows(tokens)[k])]
    IN  SelectSeq(joined, LAMBDA c : Len(c) > 50)

\* C5: chunk_text equals the reference: the ceil(N/150) consecutive windows of
\* at most 150 tokens, joined by single spaces, those longer than 50 kept in
\* order; 310 tokens give windows of 150, 150 and 10 tokens and 2 chunks when
\* the last renders to 50 characters or fewer; an empty text or one of at most
\* 50 characters gives no chunk
C5_ChunkTextIsReference ==
    cout.done =>
        LET text == MkText(cin.text)
            tokens == TokensOf(cin.text)
            windows == chunk_loop(split(text), 0, <<>>)
        IN  /\ cout.chunks = RefChunks(tokens)
            /\ Len(windows) = (Len(tokens) + 149) \div 150
            /\ cin.text.n = 310 =>
                   /\ [k \in 1..3 |-> Len(split(windows[k]))] = <<150, 150, 10>>
                   /\ Len(windows[3]) <= 50 => Len(cout.chunks) = 2
            /\ Len(text) <= 50 => cout.chunks = <<>>

\* 310 one-character tokens: three windows, the last one dropped
C5_Witness ==
    /\ cout.done
    /\ cin.text.n = 310 /\ cin.text.w = 1
    /\ Len(cout.chunks) = 2

\* C6: an upload of N chunks builds N records, one per chunk in order, with
\* pairwise distinct identifiers whatever the random suffixes, submits them
\* in one upsert call, and reports chunks_processed = N
C6_OneBatchDistinctIds ==
    (app = "rag" /\ IsUpload) =>
        /\ Len(upserts) <= 1
        /\ ext.upsert # "not called" => Len(upserts) = 1
        /\ Len(upserts) = 1 =>
               LET data == upserts[1]
                   chunks == chunk_text(extract_text(req.file.filename, req.file.content))
               IN  /\ [k \in 1..Len(data) |-> data[k].metadata.text] = chunks
                   /\ \A i, j \in 1..Len(data) : i # j => data[i].id # data[j].id
                   /\ \A k \in 1..Len(data) :
                          data[k].metadata.filename = req.file.filename
                   /\ resp.status = 200 => resp.body.chunks_processed = Len(data)

\* three records whose random suffixes are all equal
C6_Witness ==
    /\ app = "rag" /\ IsUpload /\ resp.status = 200
    /\ Len(upserts) = 1 /\ Len(upserts[1]) = 3
    /\ \E sfx \in Suffixes : \A k \in 1..3 : endswith(upserts[1][k].id, sfx)

\* C7: whenever the LLM client initialised and the message is non-empty, a chat
\* request is not rejected with 503 and reaches the LLM call, whether or not
\* the vector index or the USDA key is available
C7_OptionalIntegrationsNeverBlock ==
    (IsChat /\ startup.anthropic /\ ~message_is_empty(req.message)) =>
        (resp.status # 503 /\ Len(llm_calls) = 1)

\* C7, the part the code keeps: in src/main.py a chat request with an LLM
\* client is never answered 503, and without a USDA key every non-empty
\* message reaches the LLM call with an empty context
C7_UsdaKeyOptional ==
    (app = "usda" /\ IsChat /\ claude) =>
        /\ resp.status # 503
        /\ (~USDA_API_KEY /\ ~message_is_empty(req.message)) =>
               /\ Len(llm_calls) = 1
               /\ llm_calls[1].context = <<>>
               /\ usda_queries = <<>>

\* C8 as stated: the message "price of gold" makes the enricher select "rice"
\* and issue the external search query for it
C8_PriceOfGoldSearchesRice ==
    (app = "usda" /\ IsChat /\ claude /\ USDA_API_KEY /\ req.message = MsgPriceOfGold) =>
        (usda_queries # <<>> /\ usda_queries[1] = SearchQuery(Rice))

\* C8 amended: "price of gold" holds none of the gating keywords, so no food is
\* looked for and no search query is issued; with a keyword in the message
\* ("Protein price of gold") the substring "rice" of "price" is selected and,
\* given a USDA key, searched for
C8_KeywordGatesSubstringMatch ==
    (app = "usda" /\ IsChat /\ claude) =>
        /\ req.message = MsgPriceOfGold =>
               /\ usda_queries = <<>>
               /\ ext.search = NotCalled
               /\ \A k \in 1..Len(llm_calls) : llm_calls[k].context = <<>>
        /\ (req.message = MsgProteinPrice /\ USDA_API_KEY) =>
               (usda_queries # <<>> /\ usda_queries[1] = SearchQuery(Rice))
        /\ ~USDA_API_KEY => usda_queries = <<>>

\* "price of gold" is answered by the LLM with no USDA query
C8_Witness ==
    /\ app = "usda" /\ IsChat /\ USDA_API_KEY
    /\ req.message = MsgPriceOfGold
    /\ resp.status = 200 /\ Len(llm_calls) = 1 /\ usda_queries = <<>>

\* the enrichment of the last request did not end with a well-formed record
EnrichmentFailed == ext.details # HttpResponse(200, FoodDetails)

\* C9: whatever the USDA search and details calls answer short of a
\* well-formed record, the enrichment text is empty, no error of the
\* enrichment reaches the caller, and the request makes exactly one LLM call
\* without context, answering sources ["Claude AI"] and usda_data_used false
C9_EnrichmentBestEffort ==
    (app = "usda" /\ IsChat /\ claude /\ ~message_is_empty(req.message)
         /\ EnrichmentFailed) =>
        /\ Len(llm_calls) = 1
        /\ llm_calls[1].context = <<>>
        /\ resp.status = 200 =>
               /\ resp.body.sources = <<"Claude AI">>
               /\ resp.body.usda_data_used = FALSE

\* C9, the part the code keeps: when the search call yields nothing (no key,
\* an exception, a non-200 status, a body that is not an object, no or an
\* empty result list) or the details call yields nothing (an exception, a
\* non-200 status, an empty body), the request makes one LLM call without
\* context
C9_AbsentResponses ==
    (app = "usda" /\ IsChat /\ claude /\ ~message_is_empty(req.message)) =>
        LET no_search == ~truthy(search_usda_food(USDA_API_KEY, ext.search))
            no_details == /\ ext.details # NotCalled
                          /\ ~truthy(get_usda_food_details(USDA_API_KEY, ext.details))
        IN  (no_search \/ no_details) =>
                /\ Len(llm_calls) = 1
                /\ llm_calls[1].context = <<>>
                /\ resp.status = 200 =>
                       /\ resp.body.sources = <<"Claude AI">>
                       /\ resp.body.usda_data_used = FALSE

\* C10: a chat request calls the LLM at most once; when that call fails the
\* request ends with HTTP 500 raised by the handler, after that one call
C10_SingleLlmCallNoRetry ==
    IsChat =>
        /\ Len(llm_calls) <= 1
        /\ resp.raised # "unhandled"
        /\ ext.llm \in {"error", "empty content"} =>
               /\ Len(llm_calls) = 1
               /\ resp.status = 500
               /\ resp.raised = "HTTPException"

C10_Witness ==
    /\ IsChat /\ ext.llm = "error"
    /\ Len(llm_calls) = 1 /\ resp.status = 500

====
